---- MODULE Spec2Model ----
(***************************************************************************)
(* Model of the legal-risk-analysis client: the AgentWebSocket connection  *)
(* manager (src/src/services/websocket.js), the App component's message    *)
(* handlers (src/src/App.js) and the WorkflowPanel approval logic (the     *)
(* component listing in src/README.md).                                    *)
(***************************************************************************)
EXTENDS Integers, Sequences, FiniteSets, TLC

(***************************************************************************)
(* Bounds of the model.                                                    *)
(***************************************************************************)
MaxSockets == 6
MaxRegistrations == 2
MaxTimeline == 3
MaxActions == 3
MaxTextLen == 1
MaxPathLen == 3
MaxFiles == 2

(***************************************************************************)
(* Program constants.                                                      *)
(***************************************************************************)
maxReconnectAttempts == 5
baseDelay == 2000

(***************************************************************************)
(* Values.                                                                 *)
(***************************************************************************)
Null == [null |-> TRUE]
Undefined == "undefined"

Range(s) == {s[i] : i \in DOMAIN s}

Min(a, b) == IF a < b THEN a ELSE b

\* The three handlers a client may register in the open-system specification:
\* two that return normally and one that throws.
GenericHandlers == {"h1", "h2", "hThrow"}

\* The handlers App registers in initializeSession, by message type.
AppHandlers ==
  [connected |-> "handleConnected",
   analysis_started |-> "handleAnalysisStarted",
   agent_message |-> "handleAgentMessage",
   approval_required |-> "handleApprovalRequired",
   approval_processed |-> "handleApprovalProcessed",
   analysis_complete |-> "handleAnalysisComplete",
   error |-> "handleError"]

MessageTypes == DOMAIN AppHandlers \cup {"connection_failed"}

Throws(h) == h = "hThrow"

\* A handler that, when invoked, calls the function on() returned for it (a
\* listener for one event).
Unsubscribes(h) == h = "hOnce"

\* array.splice(j, 1)
RemoveAt(seq, j) == SubSeq(seq, 1, j - 1) \o SubSeq(seq, j + 1, Len(seq))

\* handlers.indexOf(handler): the first position of handler, 0 when absent
indexOf(handlers, handler) ==
  IF handler \in Range(handlers)
  THEN CHOOSE i \in DOMAIN handlers :
         handlers[i] = handler /\ \A k \in 1..(i - 1) : handlers[k] # handler
  ELSE 0

VARIABLES
  \* AgentWebSocket
  ws,                 \* this.ws: 0 (null) or the index of a transport in sockets
  sockets,            \* every WebSocket created so far, by its readyState
  isConnecting,       \* this.isConnecting
  reconnectAttempts,  \* this.reconnectAttempts
  timers,             \* pending setTimeout(() => this.connect(), delay), in scheduling order
  messageHandlers,    \* this.messageHandlers: type -> array of handlers
  \* App
  websocket,          \* App state websocket: "null" or "set"
  connectionStatus,   \* App state connectionStatus
  agentMessages,      \* App state agentMessages (the timeline)
  approvalRequest,    \* App state approvalRequest
  \* WorkflowPanel and its ApprovalAction children
  analysisStarted,    \* WorkflowPanel state analysisStarted
  decisions,          \* WorkflowPanel state decisions
  editMode,           \* state editMode of each mounted ApprovalAction, by action index
  \* observations of the manager's behaviour
  lastDispatch,       \* the last run of handleMessage / notifyHandlers
  schedLog,           \* delays of the reconnects scheduled since the last open
  closures,           \* close events since the last open
  failedEmits,        \* notifyHandlers('connection_failed') calls so far
  closeCalled,        \* close() was called and connect() not called by the client since
  unsubscribers,      \* the unsubscribe functions on() has returned, in order: [type, handler, called]
  \* observations of the approval workflow
  lastCall,           \* the call of websocket.send or alert made by the last step, if any
  recorded,           \* per action of the pending request, the last decision given through its own controls
  progress,           \* the actions of the pending request decided so far, while each was decided
                      \* at most once and no bulk button was used, and the frames sent for them
  \* App and the two side panels
  selectedDocument,   \* App state selectedDocument: Null or a document {doc_id}
  selectedFile,       \* App state selectedFile: Null or a file {path}
  layoutMode,         \* App state layoutMode
  documentDetail,     \* DocumentPanel state documentDetail: Null or the detail of a document
  pendingLoads,       \* doc_ids whose fetch of loadDocumentDetail has not answered yet
  documentViewMode,   \* DocumentPanel state viewMode: "list" or "viewer"
  fileViewMode,       \* FilePanel state viewMode: "browser" or "viewer"
  fileList,           \* the files prop of FilePanel when its tree was last built
  fileTree,           \* FilePanel state fileTree
  mounted,            \* App is mounted: its effect cleanup has not run
  highlightedPages,   \* DocumentPanel state highlightedPages
  seen                \* the <<approval context, highlighted pages>> pairs the document viewer has shown

wsVars == <<ws, sockets, isConnecting, reconnectAttempts, timers, messageHandlers>>
appVars == <<websocket, connectionStatus, agentMessages, approvalRequest>>
obsVars == <<lastDispatch, schedLog, closures, failedEmits, closeCalled, unsubscribers>>
panelVars == <<analysisStarted, decisions, editMode>>
reqObs == <<recorded, progress>>
\* what the App handlers leave alone when none of them runs
selVars == <<selectedDocument, selectedFile, layoutMode, documentDetail, pendingLoads,
             documentViewMode, fileViewMode, fileList, fileTree, mounted>>
docObs == <<highlightedPages, seen>>
\* what the handling of a frame can change besides App state
handledVars == <<editMode, reqObs, docObs>>
vars == <<wsVars, appVars, panelVars, obsVars, lastCall, reqObs, selVars, docObs>>

(***************************************************************************)
(* Message payloads.  data.f of a payload that has no field f is           *)
(* undefined.                                                              *)
(***************************************************************************)
Field(data, f) == IF f \in DOMAIN data THEN data[f] ELSE Undefined

\* a || b for strings: b when a is undefined or empty
OrElse(a, b) == IF a = Undefined \/ a = "" THEN b ELSE a

(***************************************************************************)
(* handlers.forEach(...) of handleMessage (each call inside try/catch,     *)
(* guarded = TRUE) and of notifyHandlers (no try/catch, guarded = FALSE):  *)
(* the handlers invoked, in order, and whether an exception left the loop. *)
(***************************************************************************)
\* The array after the call of handler h: the function returned by on()
\* removes the first h of the array (websocket.js 118-122), the array that
\* forEach is walking.
Called(h, handlers) ==
  IF Unsubscribes(h) /\ indexOf(handlers, h) > 0
  THEN RemoveAt(handlers, indexOf(handlers, h))
  ELSE handlers

\* Array.prototype.forEach visits the indices below the length the array had
\* at the start that are still in the array when their turn comes; handlers
\* is the array as the calls so far have left it.
RECURSIVE forEach(_, _, _, _)
forEach(handlers, i, len, guarded) ==
  IF i > len \/ i > Len(handlers)
  THEN [invoked |-> <<>>, escaped |-> FALSE, handlers |-> handlers]
  ELSE LET after == Called(handlers[i], handlers)
       IN  IF Throws(handlers[i]) /\ ~guarded
           THEN [invoked |-> <<handlers[i]>>, escaped |-> TRUE, handlers |-> after]
           ELSE LET rest == forEach(after, i + 1, len, guarded)
                IN  [invoked |-> <<handlers[i]>> \o rest.invoked, escaped |-> rest.escaped,
                     handlers |-> rest.handlers]

\* The handlers registered for type by calls of on() whose unsubscribe
\* function has not been called, in the order of the calls.
Subscribed(type) ==
  LET kept == SelectSeq(unsubscribers, LAMBDA u : u.type = type /\ ~u.called)
  IN  [k \in DOMAIN kept |-> kept[k].handler]

\* this.messageHandlers.get(type) || [] (websocket.js 93, 145)
HandlersFor(type) ==
  IF type \in DOMAIN messageHandlers THEN messageHandlers[type] ELSE <<>>

\* The record kept of one dispatch.
Dispatched(type, via, guarded) ==
  LET run == forEach(HandlersFor(type), 1, Len(HandlersFor(type)), guarded)
  IN  [type |-> type, via |-> via, registered |-> HandlersFor(type),
       subscribed |-> Subscribed(type),
       invoked |-> run.invoked, escaped |-> run.escaped]

\* this.messageHandlers after the dispatch of type
RegistryAfter(type, guarded) ==
  IF type \in DOMAIN messageHandlers
  THEN [messageHandlers EXCEPT
          ![type] = forEach(HandlersFor(type), 1, Len(HandlersFor(type)), guarded).handlers]
  ELSE messageHandlers

\* The functions returned by on() after the handlers in invoked have run:
\* each handler that unsubscribes has called the function of its, so far
\* uncalled, registration.
UnsubscribersAfter(type, invoked) ==
  LET n == Cardinality({k \in DOMAIN invoked : Unsubscribes(invoked[k])})
      Own(k) == /\ unsubscribers[k].type = type
                /\ Unsubscribes(unsubscribers[k].handler)
                /\ ~unsubscribers[k].called
  IN  [k \in DOMAIN unsubscribers |->
         IF Own(k) /\ Cardinality({j \in 1..k : Own(j)}) <= n
         THEN [unsubscribers[k] EXCEPT !.called = TRUE]
         ELSE unsubscribers[k]]

NoDispatch == [type |-> "none", via |-> "none", registered |-> <<>>, subscribed |-> <<>>,
               invoked |-> <<>>, escaped |-> FALSE]

(***************************************************************************)
(* The App handlers (App.js 109-171), as the change each makes to App      *)
(* state.  timestamp: new Date() is not modelled.                          *)
(***************************************************************************)
\* the handlers with an approval_processed entry that does not carry the
\* frame's message
TimelineEntryFixedText(h, data) ==
  CASE h = "handleAnalysisStarted" -> <<[type |-> "system", content |-> Field(data, "message")]>>
    [] h = "handleAgentMessage" -> <<[type |-> "agent", content |-> Field(data, "content")]>>
    [] h = "handleApprovalRequired" -> <<[type |-> "system", content |-> "Waiting for your approval..."]>>
    [] h = "handleApprovalProcessed" -> <<[type |-> "system", content |-> "Approval processed"]>>
    [] h = "handleAnalysisComplete" -> <<[type |-> "system", content |-> Field(data, "message")]>>
    [] h = "handleError" -> <<[type |-> "error", content |-> OrElse(Field(data, "message"), "An error occurred")]>>
    [] OTHER -> <<>>

TimelineEntry(h, data) ==
  CASE h = "handleAnalysisStarted" -> <<[type |-> "system", content |-> Field(data, "message")]>>
    [] h = "handleAgentMessage" -> <<[type |-> "agent", content |-> Field(data, "content")]>>
    [] h = "handleApprovalRequired" -> <<[type |-> "system", content |-> "Waiting for your approval..."]>>
    [] h = "handleApprovalProcessed" -> <<[type |-> "system", content |-> Field(data, "message")]>>
    [] h = "handleAnalysisComplete" -> <<[type |-> "system", content |-> Field(data, "message")]>>
    [] h = "handleError" -> <<[type |-> "error", content |-> OrElse(Field(data, "message"), "An error occurred")]>>
    [] OTHER -> <<>>

\* handlers that put their entry in front: [entry, ...prev]
RECURSIVE TimelineAfterPrepend(_, _, _)
TimelineAfterPrepend(invoked, data, timeline) ==
  IF invoked = <<>> THEN timeline
  ELSE TimelineAfterPrepend(Tail(invoked), data, TimelineEntry(Head(invoked), data) \o timeline)

\* setAgentMessages(prev => [...prev, entry]) of each handler invoked, in order
RECURSIVE TimelineAfter(_, _, _)
TimelineAfter(invoked, data, timeline) ==
  IF invoked = <<>> THEN timeline
  ELSE TimelineAfter(Tail(invoked), data, timeline \o TimelineEntry(Head(invoked), data))

\* handlers of which handleConnected also gives the pending request up
RECURSIVE RequestAfterConnectedClears(_, _, _)
RequestAfterConnectedClears(invoked, data, request) ==
  IF invoked = <<>> THEN request
  ELSE RequestAfterConnectedClears(Tail(invoked), data,
         CASE Head(invoked) = "handleApprovalRequired" -> data
           [] Head(invoked) \in {"handleApprovalProcessed", "handleConnected"} -> Null
           [] OTHER -> request)

\* handlers of which handleError also gives the pending request up
RECURSIVE RequestAfterErrorClears(_, _, _)
RequestAfterErrorClears(invoked, data, request) ==
  IF invoked = <<>> THEN request
  ELSE RequestAfterErrorClears(Tail(invoked), data,
         CASE Head(invoked) = "handleApprovalRequired" -> data
           [] Head(invoked) \in {"handleApprovalProcessed", "handleError"} -> Null
           [] OTHER -> request)

\* setApprovalRequest(data) of handleApprovalRequired and setApprovalRequest(null)
\* of handleApprovalProcessed (App.js 134, 146), for each handler invoked
RECURSIVE RequestAfter(_, _, _)
RequestAfter(invoked, data, request) ==
  IF invoked = <<>> THEN request
  ELSE RequestAfter(Tail(invoked), data,
         CASE Head(invoked) = "handleApprovalRequired" -> data
           [] Head(invoked) = "handleApprovalProcessed" -> Null
           [] OTHER -> request)

StatusAfter(invoked, status) ==
  IF "handleConnected" \in Range(invoked) THEN "connected" ELSE status

NoCall == [kind |-> "none"]

\* No action decided yet, no frame sent.
NoProgress == [decided |-> {}, frames |-> 0]

\* An action was decided twice or a bulk button was used.
Void == [void |-> TRUE]

\* An array slot that was never assigned.
Hole == [hole |-> TRUE]

\* The action count of a request, 0 when none is pending.
ActionCount(request) == IF request = Null THEN 0 ELSE Len(request.actions)

\* renderApprovalDialog (README.md 526-562) renders one ApprovalAction per
\* action, keyed by index, when a request is pending and the timeline view is
\* shown: a component that stays mounted keeps its editMode, a new one starts
\* with editMode = false (README.md 653).
Mounted(modes, request, started) ==
  [i \in 1..(IF started THEN ActionCount(request) ELSE 0) |->
     IF i <= Len(modes) THEN modes[i] ELSE FALSE]

(***************************************************************************)
(* DocumentPanel (DocumentPanel.js).                                       *)
(***************************************************************************)
\* array.find(pred) over the actions of the request; undefined (NotFound)
\* when no request is pending or no action has one of the tool names
NotFound == [found |-> FALSE]

\* the last action with one of the tool names instead of the first
FindLastAction(request, toolNames) ==
  IF request = Null THEN NotFound
  ELSE LET hits == SelectSeq(request.actions, LAMBDA a : a.tool_name \in toolNames)
       IN  IF hits = <<>> THEN NotFound ELSE hits[Len(hits)]

FindAction(request, toolNames) ==
  IF request = Null THEN NotFound
  ELSE LET hits == SelectSeq(request.actions, LAMBDA a : a.tool_name \in toolNames)
       IN  IF hits = <<>> THEN NotFound ELSE hits[1]

\* object.f is neither undefined nor null
Has(object, f) == f \in DOMAIN object

\* the approvalContext prop of DocumentPanel (App.js 273-275)
DocumentContext(request) == FindAction(request, {"get_documents", "get_page_text"})

\* the approvalContext prop of FilePanel (App.js 298-300)
FileContext(request) == FindAction(request, {"write_file", "edit_file"})

\* d.significant_pages || []
SignificantPages(d) == IF Has(d, "significant_pages") THEN d.significant_pages ELSE <<>>

\* the effect without its branch for no approval context: the pages stay
highlightEffectKeeps(approvalContext, detail, pages) ==
  IF approvalContext # NotFound /\ Has(approvalContext, "context")
  THEN LET context == approvalContext.context
       IN  IF Field(context, "tool") = "get_documents" /\ Has(context, "documents")
           THEN IF Len(context.documents) > 0
                THEN SignificantPages(context.documents[1])
                ELSE pages
           ELSE IF Field(context, "tool") = "get_page_text" /\ Has(context, "pages")
                THEN [k \in DOMAIN context.pages |-> context.pages[k].page_num]
                ELSE pages
  ELSE pages

\* the effect on [approvalContext, documentDetail] (DocumentPanel.js 49-71):
\* highlightedPages after it has run
highlightEffect(approvalContext, detail, pages) ==
  IF approvalContext # NotFound /\ Has(approvalContext, "context")
  THEN LET context == approvalContext.context
       IN  IF Field(context, "tool") = "get_documents" /\ Has(context, "documents")
           THEN IF Len(context.documents) > 0
                THEN SignificantPages(context.documents[1])
                ELSE pages
           ELSE IF Field(context, "tool") = "get_page_text" /\ Has(context, "pages")
                THEN [k \in DOMAIN context.pages |-> context.pages[k].page_num]
                ELSE pages
  ELSE IF detail # Null THEN SignificantPages(detail) ELSE pages

\* renderDocumentViewer draws the viewer, and not the list or "Loading
\* document...", when a document is selected and a detail is loaded
\* (DocumentPanel.js 142-145, 216)
ViewerRendered(selected, detail) == selected # Null /\ detail # Null

\* the pairs shown so far, after a render with these values
SeenAfter(request, selected, detail, pages) ==
  IF ViewerRendered(selected, detail) /\ DocumentContext(request) # NotFound
  THEN seen \cup {<<DocumentContext(request), pages>>}
  ELSE seen

\* The App state after the handlers in invoked have run on data, and the
\* panels re-rendered with it.
AppHandlersRun(invoked, data) ==
  /\ connectionStatus' = StatusAfter(invoked, connectionStatus)
  /\ agentMessages' = TimelineAfter(invoked, data, agentMessages)
  /\ approvalRequest' = RequestAfter(invoked, data, approvalRequest)
  /\ Len(agentMessages') <= MaxTimeline
  /\ editMode' = Mounted(editMode, approvalRequest', analysisStarted)
  /\ highlightedPages' =
       highlightEffect(DocumentContext(approvalRequest'), documentDetail, highlightedPages)
  /\ seen' = SeenAfter(approvalRequest', selectedDocument, documentDetail, highlightedPages')
  /\ IF "handleApprovalRequired" \in Range(invoked) \/ approvalRequest' = Null
     THEN /\ recorded' = [i \in 1..ActionCount(approvalRequest') |-> Hole]
          /\ progress' = NoProgress
     ELSE UNCHANGED reqObs

\* a step that calls neither websocket.send nor alert and leaves the
\* WorkflowPanel's own state alone
quiet == lastCall' = NoCall /\ UNCHANGED <<analysisStarted, decisions, selVars>>

(***************************************************************************)
(* AgentWebSocket                                                          *)
(***************************************************************************)
Live(s) == sockets[s] \in {"CONNECTING", "OPEN", "CLOSING"}

\* connect() (websocket.js 32-40); the callbacks it installs are the
\* actions onopen, onmessage, onerror and onclose below.
connectReturnsEarly == isConnecting \/ (ws # 0 /\ sockets[ws] = "OPEN")

connect ==
  IF connectReturnsEarly
  THEN UNCHANGED <<ws, sockets, isConnecting>>
  ELSE /\ Len(sockets) < MaxSockets
       /\ isConnecting' = TRUE
       /\ sockets' = Append(sockets, "CONNECTING")
       /\ ws' = Len(sockets) + 1

\* notifyHandlers(type, data) (websocket.js 144-147)
notifyHandlers(type, data) ==
  LET d == Dispatched(type, "notifyHandlers", FALSE)
  IN  /\ lastDispatch' = d
      /\ messageHandlers' = RegistryAfter(type, FALSE)
      /\ unsubscribers' = UnsubscribersAfter(type, d.invoked)
      /\ AppHandlersRun(d.invoked, data)

\* handleMessage(message) (websocket.js 88-101)
handleMessage(message) ==
  LET d == Dispatched(Field(message, "type"), "handleMessage", TRUE)
  IN  /\ lastDispatch' = d
      /\ messageHandlers' = RegistryAfter(Field(message, "type"), TRUE)
      /\ unsubscribers' = UnsubscribersAfter(Field(message, "type"), d.invoked)
      /\ AppHandlersRun(d.invoked, message)

\* onopen without this.reconnectAttempts = 0
onopenKeepsAttempts(s) ==
  /\ s \in DOMAIN sockets /\ sockets[s] = "CONNECTING"
  /\ sockets' = [sockets EXCEPT ![s] = "OPEN"]
  /\ isConnecting' = FALSE
  /\ notifyHandlers("connected", [sessionId |-> "session"])
  /\ schedLog' = <<>> /\ closures' = 0
  /\ UNCHANGED <<ws, timers, websocket, failedEmits, closeCalled, reconnectAttempts>>
  /\ quiet

\* this.ws.onopen (websocket.js 42-49)
onopen(s) ==
  /\ s \in DOMAIN sockets /\ sockets[s] = "CONNECTING"
  /\ sockets' = [sockets EXCEPT ![s] = "OPEN"]
  /\ isConnecting' = FALSE
  /\ reconnectAttempts' = 0
  /\ notifyHandlers("connected", [sessionId |-> "session"])
  /\ schedLog' = <<>> /\ closures' = 0
  /\ UNCHANGED <<ws, timers, websocket, failedEmits, closeCalled>>
  /\ quiet

\* this.ws.onerror (websocket.js 60-63)
onerror(s) ==
  /\ s \in DOMAIN sockets /\ Live(s)
  /\ notifyHandlers("error", [error |-> "event"])
  /\ UNCHANGED <<ws, sockets, isConnecting, reconnectAttempts, timers, websocket,
                 schedLog, closures, failedEmits, closeCalled>>
  /\ quiet

\* the delay as the documentation describes it (exponential backoff)
reconnectDelayExponential(attempts) == baseDelay * (2 ^ (attempts - 1))

\* the delay of the reconnect scheduled when the counter has become attempts:
\* 2000 * this.reconnectAttempts (websocket.js 73)
reconnectDelay(attempts) == baseDelay * attempts

\* a retry budget that is never exhausted
mayReconnectAlways(attempts) == TRUE

\* this.reconnectAttempts < this.maxReconnectAttempts (websocket.js 70)
mayReconnect(attempts) == attempts < maxReconnectAttempts

\* this.ws.onclose (websocket.js 65-79): the transport has closed, after a
\* drop, a failed connection attempt or a close() of the client.
onclose(s) ==
  /\ s \in DOMAIN sockets /\ Live(s)
  /\ sockets' = [sockets EXCEPT ![s] = "CLOSED"]
  /\ isConnecting' = FALSE
  /\ closures' = closures + 1
  /\ IF mayReconnect(reconnectAttempts)
     THEN /\ reconnectAttempts' = reconnectAttempts + 1
          /\ timers' = Append(timers, reconnectDelay(reconnectAttempts'))
          /\ schedLog' = Append(schedLog, reconnectDelay(reconnectAttempts'))
          /\ UNCHANGED <<appVars, handledVars, lastDispatch, failedEmits,
                         messageHandlers, unsubscribers>>
     ELSE /\ notifyHandlers("connection_failed",
                            [message |-> "Failed to connect after multiple attempts"])
          /\ failedEmits' = failedEmits + 1
          /\ UNCHANGED <<reconnectAttempts, timers, schedLog, websocket>>
  /\ UNCHANGED <<ws, closeCalled>>
  /\ quiet

\* A pending timer may expire unless one scheduled before it expires no later.
MayExpire(j) == \A i \in 1..(j - 1) : timers[i] > timers[j]

\* the callback of setTimeout(() => this.connect(), ...) (websocket.js 73)
reconnectTimer(j) ==
  /\ j \in DOMAIN timers /\ MayExpire(j)
  /\ timers' = RemoveAt(timers, j)
  /\ connect
  /\ UNCHANGED <<reconnectAttempts, messageHandlers, appVars, handledVars, obsVars>>
  /\ quiet

\* the body of close() (websocket.js 152-157)
closeBody ==
  /\ IF ws # 0
     THEN /\ sockets' = [sockets EXCEPT ![ws] =
                           IF @ \in {"CONNECTING", "OPEN"} THEN "CLOSING" ELSE @]
          /\ ws' = 0
     ELSE UNCHANGED <<ws, sockets>>
  /\ closeCalled' = TRUE

\* close() called by a client of the manager
close ==
  /\ closeBody
  /\ UNCHANGED <<isConnecting, reconnectAttempts, timers, messageHandlers, appVars,
                 handledVars, lastDispatch, schedLog, closures, failedEmits, unsubscribers>>
  /\ quiet

\* a call of connect() by the client of the manager
clientConnect ==
  /\ connect
  /\ closeCalled' = FALSE
  /\ UNCHANGED <<reconnectAttempts, timers, messageHandlers, appVars, handledVars,
                 lastDispatch, schedLog, closures, failedEmits, unsubscribers>>
  /\ quiet

\* this.ws && this.ws.readyState === WebSocket.OPEN (websocket.js 132)
ChannelOpen == ws # 0 /\ sockets[ws] = "OPEN"

\* this.ws.send(data) (websocket.js 133) on transport s, 0 for null: reading
\* send of null is a TypeError, the browser's send is an InvalidStateError
\* while CONNECTING, transmits while OPEN and discards the data otherwise.
transportSend(s) ==
  CASE s = 0 -> [transmitted |-> FALSE, threw |-> TRUE]
    [] s # 0 /\ sockets[s] = "CONNECTING" -> [transmitted |-> FALSE, threw |-> TRUE]
    [] s # 0 /\ sockets[s] = "OPEN" -> [transmitted |-> TRUE, threw |-> FALSE]
    [] OTHER -> [transmitted |-> FALSE, threw |-> FALSE]

\* send without the test of readyState
sendUnguarded(message, via) ==
  [kind |-> "send", via |-> via, message |-> message,
   transmitted |-> transportSend(ws).transmitted,
   threw |-> transportSend(ws).threw, logged |-> FALSE]

\* websocket.send(message) (websocket.js 131-137), as the call observed
send(message, via) ==
  [kind |-> "send", via |-> via, message |-> message,
   transmitted |-> ChannelOpen /\ transportSend(ws).transmitted,
   threw |-> ChannelOpen /\ transportSend(ws).threw, logged |-> ~ChannelOpen]

\* a call of send(message) by the client of the manager
clientSend ==
  /\ lastCall' = send([type |-> "ping"], "client")
  /\ UNCHANGED <<wsVars, appVars, panelVars, obsVars, reqObs, selVars, docObs>>

\* The text of an inbound frame that is not JSON.
Malformed == [malformed |-> TRUE]

\* The frame whose text is the JSON literal null.
JSONNull == [null |-> TRUE]

\* A frame whose text is a JSON object with no type field.
NoType == [content |-> "x"]

\* try { JSON.parse(event.data); handleMessage(message) } of this.ws.onmessage
\* reaches the handlers: JSON.parse throws a SyntaxError on text that is not
\* JSON, and message.type of handleMessage throws a TypeError on null.
ParsesAsMessage(data) == "malformed" \notin DOMAIN data /\ "null" \notin DOMAIN data

\* the catch of this.ws.onmessage without its catch: the error leaves onmessage
DroppedUncaught(data) ==
  [type |-> "none", via |-> "onmessage", registered |-> <<>>, subscribed |-> <<>>,
   invoked |-> <<>>, escaped |-> TRUE]

\* the catch of this.ws.onmessage (websocket.js 55-57): the error is logged
\* and the frame dropped
Dropped(data) ==
  [type |-> "none", via |-> "onmessage", registered |-> <<>>, subscribed |-> <<>>,
   invoked |-> <<>>, escaped |-> FALSE]

\* this.ws.onmessage (websocket.js 51-58)
onmessage(s, data) ==
  /\ s \in DOMAIN sockets /\ sockets[s] = "OPEN"
  /\ IF ParsesAsMessage(data)
     THEN handleMessage(data)
     ELSE /\ lastDispatch' = Dropped(data)
          /\ UNCHANGED <<connectionStatus, agentMessages, approvalRequest, handledVars,
                         messageHandlers, unsubscribers>>
  /\ UNCHANGED <<ws, sockets, isConnecting, reconnectAttempts, timers, websocket,
                 schedLog, closures, failedEmits, closeCalled>>
  /\ quiet

Registrations ==
  LET types == {t \in DOMAIN messageHandlers : messageHandlers[t] # <<>>}
      RECURSIVE Sum(_)
      Sum(S) == IF S = {} THEN 0
                ELSE LET t == CHOOSE x \in S : TRUE
                     IN  Len(messageHandlers[t]) + Sum(S \ {t})
  IN  Sum(types)

\* on(messageType, handler) (websocket.js 110-124).  A type that has no
\* entry in the Map and a type whose array is empty are both <<>>: every read
\* of the Map is get(type) || [].
on(messageType, handler) ==
  /\ Registrations < MaxRegistrations
  /\ messageHandlers' = [messageHandlers EXCEPT ![messageType] = Append(@, handler)]
  /\ unsubscribers' = Append(unsubscribers,
                         [type |-> messageType, handler |-> handler, called |-> FALSE])
  /\ UNCHANGED <<ws, sockets, isConnecting, reconnectAttempts, timers, appVars,
                 handledVars, lastDispatch, schedLog, closures, failedEmits, closeCalled>>
  /\ quiet

\* the function returned by the k-th call of on (websocket.js 117-123),
\* which was on(messageType, handler)
unsubscribe(k) ==
  /\ k \in DOMAIN unsubscribers
  /\ LET messageType == unsubscribers[k].type
         handler == unsubscribers[k].handler
         index == indexOf(messageHandlers[messageType], handler)
     IN  messageHandlers' =
           IF index > 0
           THEN [messageHandlers EXCEPT ![messageType] = RemoveAt(@, index)]
           ELSE messageHandlers
  /\ unsubscribers' = [unsubscribers EXCEPT ![k].called = TRUE]
  /\ UNCHANGED <<ws, sockets, isConnecting, reconnectAttempts, timers, appVars,
                 handledVars, lastDispatch, schedLog, closures, failedEmits, closeCalled>>
  /\ quiet

(***************************************************************************)
(* buildFileTree (FilePanel.js 52-85).  A path is the sequence of its      *)
(* '/'-separated segments ("/report/r.md" is <<"", "report", "r.md">>).    *)
(* The tree of nested objects is kept flat: dirs holds every directory     *)
(* node by the names that lead to it from the root, files the entries      *)
(* pushed onto nodes of the tree, in the order of the pushes, each with    *)
(* its node.                                                               *)
(***************************************************************************)
\* Names that every object inherits from Object.prototype: current.dirs[part]
\* is not undefined for them although current.dirs = {} has no such key.
InheritedNames == {"constructor"}

\* file.path.split('/').filter(p => p)
split(path) == SelectSeq(path, LAMBDA p : p # "")

EmptyTree == [dirs |-> {}, files |-> <<>>, stray |-> <<>>]

\* parts.forEach((part, index) => ...) from index on (FilePanel.js 59-81);
\* current is a node of the tree or, after current.dirs[part] gave an
\* inherited value, an object that is not in the tree: what is pushed there
\* is in stray.
RECURSIVE partsForEach(_, _, _, _, _)
partsForEach(tree, current, parts, index, file) ==
  IF index > Len(parts) THEN tree
  ELSE IF index = Len(parts)
  THEN LET entry == [node |-> current.at, name |-> parts[index], path |-> file.path]
       IN  IF current.inTree
           THEN [tree EXCEPT !.files = Append(@, entry)]
           ELSE [tree EXCEPT !.stray = Append(@, entry)]
  ELSE IF ~current.inTree
  THEN partsForEach(tree, current, parts, index + 1, file)
  ELSE IF parts[index] \in InheritedNames
  THEN partsForEach(tree, [inTree |-> FALSE, at |-> <<>>], parts, index + 1, file)
  ELSE LET dir == Append(current.at, parts[index])
       IN  partsForEach([tree EXCEPT !.dirs = @ \cup {dir}],
                        [inTree |-> TRUE, at |-> dir], parts, index + 1, file)

\* files.forEach(file => ...) from the k-th file on
RECURSIVE filesForEach(_, _, _)
filesForEach(tree, list, k) ==
  IF k > Len(list) THEN tree
  ELSE filesForEach(partsForEach(tree, [inTree |-> TRUE, at |-> <<>>],
                                 split(list[k].path), 1, list[k]),
                    list, k + 1)

buildFileTree(list) == filesForEach(EmptyTree, list, 1)

(***************************************************************************)
(* The state after new AgentWebSocket(sessionId) (websocket.js 17-24) in   *)
(* an App that has mounted (App.js 23-37).                                 *)
(***************************************************************************)
AllTypes == MessageTypes \cup {"other"}

Init ==
  /\ ws = 0
  /\ sockets = <<>>
  /\ isConnecting = FALSE
  /\ reconnectAttempts = 0
  /\ timers = <<>>
  /\ messageHandlers = [t \in AllTypes |-> <<>>]
  /\ websocket = "null"
  /\ connectionStatus = "disconnected"
  /\ agentMessages = <<>>
  /\ approvalRequest = Null
  /\ lastDispatch = NoDispatch
  /\ schedLog = <<>>
  /\ closures = 0
  /\ failedEmits = 0
  /\ closeCalled = FALSE
  /\ unsubscribers = <<>>
  /\ analysisStarted = FALSE
  /\ decisions = <<>>
  /\ editMode = <<>>
  /\ lastCall = NoCall
  /\ recorded = <<>>
  /\ progress = NoProgress
  /\ selectedDocument = Null
  /\ selectedFile = Null
  /\ layoutMode = "default"
  /\ documentDetail = Null
  /\ pendingLoads = {}
  /\ documentViewMode = "list"
  /\ fileViewMode = "browser"
  /\ fileList = <<>>
  /\ fileTree = buildFileTree(<<>>)
  /\ mounted = TRUE
  /\ highlightedPages = <<>>
  /\ seen = {}

(***************************************************************************)
(* SpecWS: the connection manager with an arbitrary client, which calls    *)
(* connect() and close() at any time.                                      *)
(***************************************************************************)
WSOpen == \E s \in DOMAIN sockets : onopen(s)
WSError == \E s \in DOMAIN sockets : onerror(s)
WSClose == \E s \in DOMAIN sockets : onclose(s)
WSTimer == \E j \in DOMAIN timers : reconnectTimer(j)

NextWS ==
  \/ clientConnect
  \/ close
  \/ clientSend
  \/ WSOpen
  \/ WSClose
  \/ WSTimer

SpecWS == Init /\ [][NextWS]_vars

(***************************************************************************)
(* SpecBus: the handler registry and the dispatch of events.  The client   *)
(* registers and unregisters handlers at any time and calls connect()      *)
(* once; the transport opens, receives frames, fails and is retried.       *)
(***************************************************************************)
ClientTypes == {"connected", "error", "connection_failed", "agent_message"}
ClientHandlers == {"h1", "hThrow", "hOnce"}
BadFrames == {Malformed, JSONNull, NoType}
ClientFrames == {[type |-> t] : t \in {"connected", "agent_message", "other"}} \cup BadFrames

BusConnect == sockets = <<>> /\ clientConnect
BusMessage == \E s \in DOMAIN sockets, data \in ClientFrames : onmessage(s, data)
ClientOn ==
  \E t \in ClientTypes, h \in ClientHandlers :
    /\ Len(unsubscribers) < MaxRegistrations
    /\ on(t, h)
ClientUnsubscribe == \E k \in DOMAIN unsubscribers : unsubscribe(k)

NextBus ==
  \/ BusConnect
  \/ ClientOn
  \/ ClientUnsubscribe
  \/ WSOpen
  \/ WSError
  \/ WSClose
  \/ BusMessage
  \/ WSTimer

SpecBus == Init /\ [][NextBus]_vars

(***************************************************************************)
(* SpecSession: the connection manager as App uses it.  initializeSession  *)
(* creates the manager, registers the seven App handlers and calls         *)
(* connect() (App.js 58-71); nothing else in App calls connect() or        *)
(* close().                                                                *)
(***************************************************************************)
RegisteredByApp ==
  [t \in AllTypes |-> IF t \in DOMAIN AppHandlers THEN <<AppHandlers[t]>> ELSE <<>>]

\* the seven calls of ws.on in their order (App.js 61-67); the functions they
\* return are dropped
AppRegistrationOrder ==
  <<"connected", "analysis_started", "agent_message", "approval_required",
    "approval_processed", "analysis_complete", "error">>

\* initializeSession, after the session request has succeeded (App.js 46-76)
initializeSession ==
  /\ websocket = "null" /\ sockets = <<>>
  /\ messageHandlers' = RegisteredByApp
  /\ isConnecting' = TRUE
  /\ sockets' = <<"CONNECTING">>
  /\ ws' = 1
  /\ websocket' = "set"
  /\ unsubscribers' = [k \in DOMAIN AppRegistrationOrder |->
                         [type |-> AppRegistrationOrder[k],
                          handler |-> AppHandlers[AppRegistrationOrder[k]],
                          called |-> FALSE]]
  /\ UNCHANGED <<reconnectAttempts, timers, connectionStatus, agentMessages,
                 approvalRequest, handledVars, lastDispatch, schedLog, closures,
                 failedEmits, closeCalled>>
  /\ quiet

\* The value of the App state websocket in the render whose effect returned
\* the cleanup: the effect has no dependencies, so it ran after the first
\* render only, where websocket is the useState(null) of App.js 24.
closureWebsocket == "null"

\* the cleanup function of the effect (App.js 81-85); captured is the
\* websocket of its closure
cleanup(captured) ==
  IF captured # "null"
  THEN closeBody
  ELSE UNCHANGED <<ws, sockets, closeCalled>>

\* App is unmounted: React runs the cleanup.  The connection manager is not
\* part of the component and goes on receiving transport events; the App
\* state after this step is what its setters were last called with.
unmount ==
  /\ mounted
  /\ mounted' = FALSE
  /\ cleanup(closureWebsocket)
  /\ UNCHANGED <<isConnecting, reconnectAttempts, timers, messageHandlers, appVars,
                 handledVars, lastDispatch, schedLog, closures, failedEmits, unsubscribers,
                 analysisStarted, decisions, selectedDocument, selectedFile, layoutMode,
                 documentDetail, pendingLoads, documentViewMode, fileViewMode, fileList,
                 fileTree>>
  /\ lastCall' = NoCall

NextSession ==
  \/ initializeSession
  \/ WSOpen
  \/ WSError
  \/ WSClose
  \/ WSTimer
  \/ unmount

SpecSession == Init /\ [][NextSession]_vars

(***************************************************************************)
(* WorkflowPanel and ApprovalAction (the listing in README.md 352-905).    *)
(***************************************************************************)
Approve == [decision |-> "approve"]
Reject == [decision |-> "reject"]
Edited(value) == [decision |-> "approve", edited_arguments |-> value]

\* The texts a user can leave in the edit box: characters '1' and 'x'.
Texts == UNION {[1..n -> {"1", "x"}] : n \in 0..MaxTextLen}

RECURSIVE Number(_)
Number(text) ==
  IF text = <<>> THEN 0 ELSE 10 * Number(SubSeq(text, 1, Len(text) - 1)) + 1

\* JSON.parse accepting text that contains a character that is not JSON
JSONparseLenient(text) == [ok |-> TRUE, value |-> Number(text)]

\* JSON.parse(editedArgs) (README.md 821) on these texts: a non-empty string
\* of digits is the number it writes, anything else is a SyntaxError.
JSONparse(text) ==
  IF text # <<>> /\ \A i \in DOMAIN text : text[i] = "1"
  THEN [ok |-> TRUE, value |-> Number(text)]
  ELSE [ok |-> FALSE]

\* newDecisions = [...decisions]; newDecisions[index] = decision
\* (README.md 592-593), index counted from 0: assigning past the end grows the
\* array and leaves holes.
Assign(array, index, decision) ==
  [k \in 1..(IF Len(array) > index + 1 THEN Len(array) ELSE index + 1) |->
     IF k = index + 1 THEN decision
     ELSE IF k <= Len(array) THEN array[k] ELSE Hole]

\* sendApprovalDecisions (App.js 195-205)
sendApprovalDecisions(list, via) ==
  lastCall' = IF websocket = "null" THEN NoCall
              ELSE send([type |-> "approval_decision", decisions |-> list], via)

\* startAnalysis (App.js 178-188)
startAnalysis(message) ==
  lastCall' = IF websocket = "null" THEN NoCall
              ELSE send([type |-> "start_analysis", message |-> message], "startAnalysis")

DialogShown == analysisStarted /\ approvalRequest # Null

\* the buttons drawn whatever allowed_decisions holds
AllowsAny(index, d) == index + 1 \in DOMAIN approvalRequest.actions

\* action.review_config?.allowed_decisions?.includes(d) (README.md 864-892)
Allows(index, d) ==
  /\ index + 1 \in DOMAIN approvalRequest.actions
  /\ d \in Range(approvalRequest.actions[index + 1].review_config.allowed_decisions)

\* A batch is complete when the array is as long as the action list
\* (README.md 597).
allDecisionsMade(newDecisions) == Len(newDecisions) = Len(approvalRequest.actions)

\* handleActionDecision(index, decision) (README.md 591-601)
handleActionDecision(index, decision) ==
  LET newDecisions == Assign(decisions, index, decision)
  IN  /\ IF allDecisionsMade(newDecisions)
         THEN /\ sendApprovalDecisions(newDecisions, "handleActionDecision")
              /\ decisions' = <<>>
         ELSE /\ lastCall' = NoCall
              /\ decisions' = newDecisions
      /\ recorded' = [recorded EXCEPT ![index + 1] = decision]
      /\ progress' =
           IF progress = Void \/ index \in progress.decided THEN Void
           ELSE [decided |-> progress.decided \cup {index},
                 frames |-> IF allDecisionsMade(newDecisions) /\ websocket # "null"
                            THEN progress.frames + 1 ELSE progress.frames]

untouchedByPanel == UNCHANGED <<wsVars, appVars, obsVars, analysisStarted, selVars, docObs>>

\* the Approve button of action index (README.md 864-871)
approve(index) ==
  /\ DialogShown /\ Allows(index, "approve")
  /\ handleActionDecision(index, Approve)
  /\ UNCHANGED editMode /\ untouchedByPanel

\* the Reject button of action index (README.md 892-899)
reject(index) ==
  /\ DialogShown /\ Allows(index, "reject")
  /\ handleActionDecision(index, Reject)
  /\ UNCHANGED editMode /\ untouchedByPanel

\* the Edit button (README.md 885-887) and the Cancel button (880-882)
setEditMode(index, mode) ==
  /\ DialogShown /\ Allows(index, "edit")
  /\ editMode[index + 1] # mode
  /\ editMode' = [editMode EXCEPT ![index + 1] = mode]
  /\ lastCall' = NoCall
  /\ UNCHANGED <<decisions, reqObs>> /\ untouchedByPanel

\* handleSaveEdit without the try/catch around JSON.parse: a text that does
\* not parse is recorded as an edit without arguments
handleSaveEditUnchecked(index, text) ==
  /\ DialogShown /\ Allows(index, "edit")
  /\ editMode[index + 1]
  /\ LET parsed == JSONparse(text)
     IN  /\ handleActionDecision(index,
                Edited(IF parsed.ok THEN parsed.value ELSE 0))
         /\ editMode' = [editMode EXCEPT ![index + 1] = FALSE]
  /\ untouchedByPanel

\* handleSaveEdit (README.md 819-830), the Save & Approve button of action
\* index with editedArgs = text in the edit box
handleSaveEdit(index, text) ==
  /\ DialogShown /\ Allows(index, "edit")
  /\ editMode[index + 1]
  /\ LET parsed == JSONparse(text)
     IN  IF parsed.ok
         THEN /\ handleActionDecision(index, Edited(parsed.value))
              /\ editMode' = [editMode EXCEPT ![index + 1] = FALSE]
         ELSE /\ lastCall' = [kind |-> "alert",
                              text |-> "Invalid JSON syntax in edited arguments"]
              /\ UNCHANGED <<decisions, editMode, reqObs>>
  /\ untouchedByPanel

\* a batch that gives each action the decision only where its
\* allowed_decisions has it
allDecidedWhereAllowed(actions, decision) ==
  [i \in DOMAIN actions |->
     IF decision.decision \in Range(actions[i].review_config.allowed_decisions)
     THEN decision ELSE Hole]

\* the decisions array built by handleApproveAll / handleRejectAll
\* (README.md 604-606, 612-614)
allDecided(actions, decision) == [i \in DOMAIN actions |-> decision]

\* handleApproveAll and handleRejectAll (README.md 603-617)
\* the bulk handlers clearing the slots only when the batch went out
handleAllKeepsUnsent(decision, via) ==
  /\ DialogShown
  /\ sendApprovalDecisions(allDecided(approvalRequest.actions, decision), via)
  /\ decisions' = IF lastCall'.kind = "send" /\ lastCall'.transmitted THEN <<>> ELSE decisions
  /\ progress' = Void
  /\ UNCHANGED <<editMode, recorded>> /\ untouchedByPanel

handleAll(decision, via) ==
  /\ DialogShown
  /\ sendApprovalDecisions(allDecided(approvalRequest.actions, decision), via)
  /\ decisions' = <<>>
  /\ progress' = Void
  /\ UNCHANGED <<editMode, recorded>> /\ untouchedByPanel

handleApproveAll ==
  /\ DialogShown
  /\ handleAll(Approve, "handleApproveAll")

handleRejectAll ==
  /\ DialogShown
  /\ handleAll(Reject, "handleRejectAll")

\* The Start Analysis button of renderInputForm is enabled (README.md
\* 420-426): the form is drawn until the analysis has started, the input is
\* not blank and connectionStatus is 'connected'.
StartEnabled == ~analysisStarted /\ connectionStatus = "connected"

\* handleStartAnalysis (README.md 387-394) through the Start Analysis button,
\* which is disabled unless connectionStatus is 'connected' and the input is
\* not blank (README.md 420-424)
handleStartAnalysis ==
  /\ StartEnabled
  /\ startAnalysis("analyze")
  /\ analysisStarted' = TRUE
  /\ editMode' = Mounted(editMode, approvalRequest, TRUE)
  /\ UNCHANGED <<wsVars, appVars, obsVars, decisions, reqObs, selVars, docObs>>

(***************************************************************************)
(* SpecApproval: the approval workflow on the first transport of a         *)
(* session.  The backend sends approval_required and approval_processed    *)
(* frames at any time; the user presses the buttons of the dialog; the     *)
(* transport may drop.                                                     *)
(***************************************************************************)
\* Action i of a request: the allowed decisions go round three kinds.
ActionAt(i) ==
  CASE i % 3 = 1 -> [tool_name |-> "write_file",
                     context |-> [file_path |-> "/report/r.md"],
                     review_config |-> [allowed_decisions |-> <<"approve", "reject">>]]
    [] i % 3 = 2 -> [tool_name |-> "get_page_text",
                     context |-> [file_path |-> "none"],
                     review_config |-> [allowed_decisions |-> <<"edit", "reject">>]]
    [] OTHER -> [tool_name |-> "task",
                 context |-> [file_path |-> "none"],
                 review_config |-> [allowed_decisions |-> <<"approve">>]]

ApprovalFrames ==
  {[type |-> "approval_required", actions |-> [i \in 1..n |-> ActionAt(i)]] :
     n \in 1..MaxActions}

ProcessedFrame == [type |-> "approval_processed", message |-> "done"]

\* the indices of the ApprovalAction components on screen
Indices == {i - 1 : i \in DOMAIN editMode}

ApprovalRequired == \E s \in DOMAIN sockets, data \in ApprovalFrames : onmessage(s, data)
ApprovalProcessed == \E s \in DOMAIN sockets : onmessage(s, ProcessedFrame)
PressApprove == \E index \in Indices : approve(index)
PressReject == \E index \in Indices : reject(index)
PressEdit == \E index \in Indices : setEditMode(index, TRUE)
PressCancel == \E index \in Indices : setEditMode(index, FALSE)
PressSave == \E index \in Indices, text \in Texts : handleSaveEdit(index, text)

NextApproval ==
  \/ initializeSession
  \/ WSOpen
  \/ WSClose
  \/ ApprovalRequired
  \/ ApprovalProcessed
  \/ handleStartAnalysis
  \/ PressApprove
  \/ PressReject
  \/ PressEdit
  \/ PressCancel
  \/ PressSave
  \/ handleApproveAll
  \/ handleRejectAll

SpecApproval == Init /\ [][NextApproval]_vars

(***************************************************************************)
(* Selection and layout (App.js 215-246), DocumentPanel and FilePanel.     *)
(***************************************************************************)
\* the documents prop: the data room as GET /api/documents lists it
documents == <<[doc_id |-> 1], [doc_id |-> 2]>>

\* the answer of GET /api/documents/{docId} (DocumentPanel.js 78-80)
DetailOf(docId) ==
  IF docId = 1 THEN [doc_id |-> 1, significant_pages |-> <<1>>] ELSE [doc_id |-> docId]

\* the files prop of FilePanel (FilePanel.js 16), by path
files == {"/notes.txt", "/report/r.md", "/report/draft/x.md"}

\* file.path.split('/').filter(p => p) (FilePanel.js 56)
PathParts(path) ==
  CASE path = "/notes.txt" -> <<"notes.txt">>
    [] path = "/report/r.md" -> <<"report", "r.md">>
    [] path = "/report/draft/x.md" -> <<"report", "draft", "x.md">>

\* isFileHighlighted(filePath) (FilePanel.js 164-176)
isFileHighlighted(approvalContext, filePath) ==
  IF approvalContext = NotFound \/ ~Has(approvalContext, "context") THEN FALSE
  ELSE IF approvalContext.tool_name \in {"write_file", "edit_file"}
            /\ Has(approvalContext.context, "file_path")
       THEN approvalContext.context.file_path = filePath
       ELSE FALSE

\* the isHighlighted prop of the FileItem drawn for a file: buildFileTree
\* (FilePanel.js 52-85) puts a path of one part into the root's files, which
\* FilePanel's renderFileTree draws (FilePanel.js 143-155); a longer path lies
\* in a directory, whose files DirectoryItem draws (FilePanel.js 303-315).
FileItemHighlighted(approvalContext, filePath) ==
  IF Len(PathParts(filePath)) = 1
  THEN isFileHighlighted(approvalContext, filePath)
  ELSE FALSE

\* the files the browser draws highlighted
HighlightedFiles == {f \in files : FileItemHighlighted(FileContext(approvalRequest), f)}

\* highlightedDocIds of renderDocumentList (DocumentPanel.js 99), the
\* documents the list draws highlighted
highlightedDocIds ==
  LET c == DocumentContext(approvalRequest)
  IN  IF c # NotFound /\ Has(c, "context") /\ Has(c.context, "documents")
      THEN {c.context.documents[k].doc_id : k \in DOMAIN c.context.documents}
      ELSE {}

\* an effect that never leaves the viewer
viewModeEffectSticky(selected, browse) == "viewer"

\* The viewMode set by the effect on [selectedDocument] (DocumentPanel.js
\* 36-43, browse = 'list') and on [selectedFile] (FilePanel.js 40-47,
\* browse = 'browser').
viewModeEffect(selected, browse) == IF selected # Null THEN "viewer" ELSE browse

\* getPanelSizes (App.js 237-246)
getPanelSizes ==
  CASE layoutMode = "document-view" -> [left |-> 40, center |-> 40, right |-> 20]
    [] layoutMode = "file-edit" -> [left |-> 20, center |-> 40, right |-> 40]
    [] OTHER -> [left |-> 20, center |-> 60, right |-> 20]

untouchedBySelection ==
  /\ UNCHANGED <<wsVars, appVars, panelVars, obsVars, reqObs, fileList, fileTree, mounted>>
  /\ lastCall' = NoCall

\* handleDocumentSelect(doc) (App.js 215-218), then the effect of
\* DocumentPanel on [selectedDocument] (DocumentPanel.js 36-43)
handleDocumentSelect(doc) ==
  /\ selectedDocument' = doc
  /\ layoutMode' = "document-view"
  /\ pendingLoads' = IF doc # Null /\ doc # selectedDocument
                     THEN pendingLoads \cup {doc.doc_id} ELSE pendingLoads
  /\ documentViewMode' = viewModeEffect(doc, "list")
  /\ seen' = SeenAfter(approvalRequest, doc, documentDetail, highlightedPages)
  /\ UNCHANGED <<selectedFile, documentDetail, highlightedPages, fileViewMode>>
  /\ untouchedBySelection

\* a click on a document of the list (DocumentPanel.js 113-117)
clickDocument(doc) ==
  /\ documentViewMode = "list"
  /\ handleDocumentSelect(doc)

\* handleBackToList (DocumentPanel.js 89-92), the button of the viewer:
\* setViewMode('list'), then onDocumentSelect(null), whose effect sets 'list'
\* again
handleBackToList ==
  /\ documentViewMode = "viewer"
  /\ ViewerRendered(selectedDocument, documentDetail)
  /\ handleDocumentSelect(Null)

\* loadDocumentDetail: the fetch answers (DocumentPanel.js 78-80), then the
\* effect on [approvalContext, documentDetail]
loadDocumentDetail(docId) ==
  /\ docId \in pendingLoads
  /\ pendingLoads' = pendingLoads \ {docId}
  /\ documentDetail' = DetailOf(docId)
  /\ highlightedPages' =
       highlightEffect(DocumentContext(approvalRequest), documentDetail', highlightedPages)
  /\ seen' = SeenAfter(approvalRequest, selectedDocument, documentDetail', highlightedPages')
  /\ UNCHANGED <<selectedDocument, selectedFile, layoutMode, documentViewMode, fileViewMode>>
  /\ untouchedBySelection

\* loadDocumentDetail: the fetch fails (DocumentPanel.js 81-83)
loadDocumentDetailFails(docId) ==
  /\ docId \in pendingLoads
  /\ pendingLoads' = pendingLoads \ {docId}
  /\ UNCHANGED <<selectedDocument, selectedFile, layoutMode, documentDetail, docObs,
                 documentViewMode, fileViewMode>>
  /\ untouchedBySelection

\* handleFileSelect(file) (App.js 227-230)
handleFileSelect(file) ==
  /\ selectedFile' = file
  /\ layoutMode' = "file-edit"
  /\ fileViewMode' = viewModeEffect(file, "browser")
  /\ UNCHANGED <<selectedDocument, documentDetail, pendingLoads, docObs, documentViewMode>>
  /\ untouchedBySelection

\* a click on a file of the browser (FilePanel.js 144-153, 303-313)
clickFile(file) ==
  /\ fileViewMode = "browser"
  /\ handleFileSelect(file)

\* the Back to Files button of the viewer (FilePanel.js 222)
backToFiles ==
  /\ fileViewMode = "viewer"
  /\ handleFileSelect(Null)

(***************************************************************************)
(* SpecViews: the App with its two side panels.  The server sends          *)
(* approval requests of one action and approval_processed; the user        *)
(* selects and leaves documents and files.                                 *)
(***************************************************************************)
ViewActions ==
  { [tool_name |-> "write_file", context |-> [file_path |-> "/report/r.md"],
     review_config |-> [allowed_decisions |-> <<"approve", "reject">>]],
    [tool_name |-> "edit_file", context |-> [file_path |-> "/notes.txt"],
     review_config |-> [allowed_decisions |-> <<"approve", "reject">>]],
    [tool_name |-> "get_page_text",
     context |-> [tool |-> "get_page_text", pages |-> <<[page_num |-> 3]>>],
     review_config |-> [allowed_decisions |-> <<"approve", "reject">>]],
    [tool_name |-> "get_documents",
     context |-> [tool |-> "get_documents",
                  documents |-> <<[doc_id |-> 2, significant_pages |-> <<2>>]>>],
     review_config |-> [allowed_decisions |-> <<"approve", "reject">>]],
    [tool_name |-> "get_documents",
     context |-> [tool |-> "get_documents", documents |-> <<>>],
     review_config |-> [allowed_decisions |-> <<"approve", "reject">>]],
    [tool_name |-> "get_documents",
     context |-> [documents |-> <<[doc_id |-> 2, significant_pages |-> <<2>>]>>],
     review_config |-> [allowed_decisions |-> <<"approve", "reject">>]] }

ViewFrames == {[type |-> "approval_required", actions |-> <<a>>] : a \in ViewActions}

ViewRequired == \E s \in DOMAIN sockets, data \in ViewFrames : onmessage(s, data)
ViewProcessed == \E s \in DOMAIN sockets : onmessage(s, ProcessedFrame)
ClickDocument == \E k \in DOMAIN documents : clickDocument(documents[k])
LoadAnswers == \E docId \in pendingLoads : loadDocumentDetail(docId)
LoadFails == \E docId \in pendingLoads : loadDocumentDetailFails(docId)
ClickFile == \E f \in files : clickFile([path |-> f])

NextViews ==
  \/ initializeSession
  \/ WSOpen
  \/ ViewRequired
  \/ ViewProcessed
  \/ ClickDocument
  \/ LoadAnswers
  \/ LoadFails
  \/ handleBackToList
  \/ ClickFile
  \/ backToFiles

SpecViews == Init /\ [][NextViews]_vars

(***************************************************************************)
(* SpecRetry: the session of App against a server that accepts no          *)
(* connection: no transport opens, each attempt reports an error or not    *)
(* and then closes.  A transport that is connecting does close (the        *)
(* browser gives the attempt up), and a timer set with setTimeout does     *)
(* expire: both steps are weakly fair.  The user browses the files         *)
(* meanwhile.                                                              *)
(***************************************************************************)
NextRetry ==
  \/ initializeSession
  \/ WSError
  \/ WSClose
  \/ WSTimer
  \/ unmount
  \/ ClickFile
  \/ backToFiles

SpecRetry == Init /\ [][NextRetry]_vars /\ WF_vars(WSClose) /\ WF_vars(WSTimer)

(***************************************************************************)
(* SpecPermit: the approval dialog with requests whose actions allow       *)
(* different decisions at the same index, so that an ApprovalAction that   *)
(* stays mounted (with its edit box open) is given another action.         *)
(***************************************************************************)
PermitFrames ==
  {[type |-> "approval_required", actions |-> <<ActionAt(k)>>] : k \in 1..3}
    \cup {[type |-> "approval_required", actions |-> <<ActionAt(2), ActionAt(1)>>]}

PermitRequired == \E s \in DOMAIN sockets, data \in PermitFrames : onmessage(s, data)

NextPermit ==
  \/ initializeSession
  \/ WSOpen
  \/ PermitRequired
  \/ ApprovalProcessed
  \/ handleStartAnalysis
  \/ PressApprove
  \/ PressReject
  \/ PressEdit
  \/ PressCancel
  \/ PressSave

SpecPermit == Init /\ [][NextPermit]_vars

(***************************************************************************)
(* SpecHandover: the approval workflow of SpecPermit on a channel that     *)
(* drops and is retried, with the bulk buttons.                            *)
(***************************************************************************)
NextHandover ==
  \/ initializeSession
  \/ WSOpen
  \/ WSClose
  \/ WSTimer
  \/ PermitRequired
  \/ handleStartAnalysis
  \/ PressApprove
  \/ PressReject
  \/ handleApproveAll
  \/ handleRejectAll

SpecHandover == Init /\ [][NextHandover]_vars

(***************************************************************************)
(* SpecContext: the approvalContext props of the two side panels, for      *)
(* requests with every sequence of fewer than MaxActions tools.  Each      *)
(* action carries its position, so that two actions of one tool are told   *)
(* apart.                                                                  *)
(***************************************************************************)
ToolNames == {"get_documents", "get_page_text", "write_file", "edit_file", "task"}

ContextFrames ==
  UNION {{[type |-> "approval_required",
           actions |-> [k \in 1..n |-> [tool_name |-> tools[k], position |-> k]]] :
            tools \in [1..n -> ToolNames]} : n \in 0..(MaxActions - 1)}

ContextRequired == \E s \in DOMAIN sockets, data \in ContextFrames : onmessage(s, data)

NextContext ==
  \/ initializeSession
  \/ WSOpen
  \/ ContextRequired
  \/ ApprovalProcessed

SpecContext == Init /\ [][NextContext]_vars

(***************************************************************************)
(* SpecTree: the file tree of FilePanel for every list of up to MaxFiles   *)
(* files whose paths have up to MaxPathLen names.                          *)
(***************************************************************************)
PathNames == {"a", "b", "constructor"}

Paths == UNION {{<<"">> \o names : names \in [1..n -> PathNames]} : n \in 1..MaxPathLen}

FileLists == UNION {[1..n -> {[path |-> path] : path \in Paths}] : n \in 0..MaxFiles}

\* the files prop changes and the effect on [files] rebuilds the tree
\* (FilePanel.js 34-37)
filesEffect(list) ==
  /\ fileList' = list
  /\ fileTree' = buildFileTree(list)
  /\ UNCHANGED <<wsVars, appVars, panelVars, obsVars, reqObs, docObs, selectedDocument,
                 selectedFile, layoutMode, documentDetail, pendingLoads, documentViewMode,
                 fileViewMode, mounted>>
  /\ lastCall' = NoCall

FilesChange == \E list \in FileLists : filesEffect(list)

NextTree == FilesChange

SpecTree == Init /\ [][NextTree]_vars

(***************************************************************************)
(* SpecReceive: the session of App (SpecSession) receiving frames: frames  *)
(* that do not parse, frames with no type and the frames of the workflow.  *)
(***************************************************************************)
\* {type: 'error'} frames of the backend: with a message, without one and
\* with an empty one
ErrorFrames ==
  {[type |-> "error", message |-> "m"], [type |-> "error"], [type |-> "error", message |-> ""]}

\* analysis_started and analysis_complete frames
ProgressFrames ==
  {[type |-> t, message |-> "done"] : t \in {"analysis_started", "analysis_complete"}}

ReceiveFrames ==
  BadFrames \cup ErrorFrames \cup ProgressFrames \cup {f \in ViewFrames : f.actions[1].tool_name = "write_file"}
            \cup {ProcessedFrame, [type |-> "agent_message", content |-> "a"], [type |-> "other"]}

ReceiveFrame == \E s \in DOMAIN sockets, data \in ReceiveFrames : onmessage(s, data)

NextReceive ==
  \/ initializeSession
  \/ WSOpen
  \/ WSError
  \/ WSClose
  \/ WSTimer
  \/ ReceiveFrame
  \/ handleStartAnalysis

SpecReceive == Init /\ [][NextReceive]_vars

(***************************************************************************)
(* C1.  A frame sent by handleActionDecision has a decision in every       *)
(* slot: none of its slots is empty.                                       *)
(***************************************************************************)
C1_NoEmptySlotSent ==
  (lastCall.kind = "send" /\ lastCall.via = "handleActionDecision") =>
    /\ Len(lastCall.message.decisions) = Len(approvalRequest.actions)
    /\ \A i \in DOMAIN lastCall.message.decisions :
         lastCall.message.decisions[i] # Hole

(***************************************************************************)
(* C2.  When every action of the pending request has been decided exactly  *)
(* once through its own controls (and no bulk button was used), exactly    *)
(* one frame has been sent for the request; a frame sent has one slot per  *)
(* action.                                                                 *)
(***************************************************************************)
C2_ExactlyOneFrame ==
  /\ (DialogShown /\ progress # Void
        /\ progress.decided = {i - 1 : i \in DOMAIN approvalRequest.actions}) =>
       progress.frames = 1
  /\ (lastCall.kind = "send" /\ lastCall.via = "handleActionDecision") =>
       Len(lastCall.message.decisions) = Len(approvalRequest.actions)

(***************************************************************************)
(* C3.  In every approval_decision frame sent by handleActionDecision,     *)
(* slot i holds the last decision the user gave action i of the pending    *)
(* request through its controls (it is empty where the user gave none);    *)
(* a frame of a bulk button has the same decision in every slot.           *)
(***************************************************************************)
C3_SlotsFollowActionOrder ==
  (lastCall.kind = "send" /\ lastCall.message.type = "approval_decision") =>
    IF lastCall.via = "handleActionDecision"
    THEN lastCall.message.decisions = recorded
    ELSE \A i, k \in DOMAIN lastCall.message.decisions :
           lastCall.message.decisions[i] = lastCall.message.decisions[k]

(***************************************************************************)
(* C4.  The step of handleApproveAll (handleRejectAll) calls send once,    *)
(* with one {decision: approve} ({decision: reject}) per action of the     *)
(* pending request whatever the actions allow and whatever was decided     *)
(* before, and leaves the decision slots empty.                            *)
(***************************************************************************)
C4_BulkDecision ==
  \A d \in {Approve, Reject} :
    (lastCall.kind = "send"
       /\ lastCall.via = (IF d = Approve THEN "handleApproveAll" ELSE "handleRejectAll")) =>
      /\ lastCall.message.type = "approval_decision"
      /\ Len(lastCall.message.decisions) = Len(approvalRequest.actions)
      /\ \A i \in DOMAIN lastCall.message.decisions : lastCall.message.decisions[i] = d
      /\ lastCall.transmitted = ChannelOpen
      /\ decisions = <<>>

\* Approve All on a three-action request whose second action does not allow
\* approve, after the user had rejected the first action and no other.
C4_Witness ==
  /\ lastCall.kind = "send" /\ lastCall.via = "handleApproveAll"
  /\ Len(approvalRequest.actions) = 3
  /\ ~Allows(1, "approve")
  /\ recorded = <<Reject, Hole, Hole>>
  /\ lastCall.message.decisions = <<Approve, Approve, Approve>>

(***************************************************************************)
(* C5.  Save & Approve on a text that does not parse shows the alert,      *)
(* sends nothing and leaves the decision slots, the edit mode and the      *)
(* request as they were (so it can be pressed again); on a text that       *)
(* parses to v it puts {decision: approve, edited_arguments: v} in the     *)
(* action's slot, of the array kept or of the frame sent.                  *)
(***************************************************************************)
C5_EditValidation ==
  [][\A index \in Indices, text \in Texts :
       handleSaveEdit(index, text) =>
         IF JSONparse(text).ok
         THEN IF lastCall'.kind = "send"
              THEN lastCall'.message.decisions[index + 1] = Edited(JSONparse(text).value)
              ELSE decisions'[index + 1] = Edited(JSONparse(text).value)
         ELSE /\ lastCall'.kind = "alert"
              /\ UNCHANGED <<decisions, editMode, approvalRequest, analysisStarted,
                             recorded, progress>>]_vars

\* the alert is up after a failed save, with the edit box still open and a
\* decision of another action untouched
C5_Witness ==
  /\ lastCall.kind = "alert"
  /\ \E i \in DOMAIN editMode : editMode[i]
  /\ decisions # <<>>

(***************************************************************************)
(* C6.  Counting from the last successful open (or from the start), the    *)
(* k-th closure schedules one reconnect with delay 2000*k ms: the delays   *)
(* scheduled so far are the first min(closures, 5) of 2000, 4000, 6000,    *)
(* 8000, 10000, so exactly 5 reconnects are scheduled.                     *)
(***************************************************************************)
LinearSchedule == <<2000, 4000, 6000, 8000, 10000>>

C6_LinearBackoff ==
  /\ Len(schedLog) = Min(closures, 5)
  /\ \A k \in 1..Len(schedLog) : schedLog[k] = LinearSchedule[k]
  /\ Len(timers) <= 1

C6_Witness == closures = 5 /\ schedLog = LinearSchedule /\ timers = <<10000>>

C8_HandlersIsolated ==
  /\ lastDispatch.escaped = FALSE
  /\ lastDispatch.invoked = lastDispatch.registered

(***************************************************************************)
(* C9.  After close(), as long as the client does not call connect()       *)
(* again, no step schedules a reconnect and no step creates a transport.   *)
(***************************************************************************)
C9_CloseSuppressesReconnect ==
  [][(closeCalled /\ closeCalled') =>
       (Len(sockets') = Len(sockets) /\ Len(timers') <= Len(timers))]_vars

(***************************************************************************)
(* C10.  A call of connect() while the manager's transport is connecting   *)
(* or open changes nothing in the manager.                                 *)
(***************************************************************************)
C10_ConnectIdempotent ==
  [][(clientConnect /\ ws # 0 /\ sockets[ws] \in {"CONNECTING", "OPEN"}) =>
       UNCHANGED wsVars]_vars

(***************************************************************************)
(* C11.  send(message) transmits the message exactly when this.ws is a     *)
(* transport in state OPEN at the call; in every other state it transmits  *)
(* nothing and only logs; it never throws and never changes the manager.   *)
(***************************************************************************)
C11_SendOnlyWhenOpen ==
  [][clientSend =>
       /\ lastCall'.transmitted = (ws # 0 /\ sockets[ws] = "OPEN")
       /\ lastCall'.logged = ~lastCall'.transmitted
       /\ ~lastCall'.threw
       /\ UNCHANGED wsVars]_vars

\* send was called while the current transport was still connecting, and
\* again with no transport after close()
C11_Witness ==
  /\ lastCall.kind = "send" /\ lastCall.via = "client"
  /\ ~lastCall.transmitted /\ lastCall.logged
  /\ ws # 0 /\ sockets[ws] = "CONNECTING"
  /\ \E s \in DOMAIN sockets : sockets[s] = "CLOSING"

(***************************************************************************)
(* C12.  A frame of type t received from the server invokes, once each and *)
(* in the order of their registration, exactly the handlers registered     *)
(* with on(t, h) whose unsubscribe function has not been called, and no    *)
(* handler of another type.                                                *)
(***************************************************************************)
C12_RegistrationOrder ==
  lastDispatch.via = "handleMessage" => lastDispatch.invoked = lastDispatch.subscribed

(***************************************************************************)
(* C13.  An approval_processed frame with message m sets the pending       *)
(* request to none and appends exactly one entry {system, m} at the end of *)
(* the timeline; the connection, the connection status and the started     *)
(* analysis are as before.                                                 *)
(***************************************************************************)
C13_ApprovalProcessed ==
  [][(\E s \in DOMAIN sockets : onmessage(s, ProcessedFrame)) =>
       /\ approvalRequest' = Null
       /\ agentMessages' =
            Append(agentMessages, [type |-> "system", content |-> ProcessedFrame.message])
       /\ UNCHANGED <<wsVars, websocket, connectionStatus, analysisStarted>>]_vars

\* the frame has arrived while a request was pending
C13_Witness ==
  /\ lastDispatch.type = "approval_processed"
  /\ approvalRequest = Null
  /\ Len(agentMessages) >= 2
  /\ agentMessages[Len(agentMessages) - 1].content = "Waiting for your approval..."
  /\ agentMessages[Len(agentMessages)] = [type |-> "system", content |-> "done"]

(***************************************************************************)
(* C14.  While a write_file or edit_file action with context.file_path = p *)
(* is the File View's approval context and the browser is shown, the files *)
(* drawn highlighted are exactly the files of the workspace with path p.   *)
(***************************************************************************)
C14_FileHighlighted ==
  LET c == FileContext(approvalRequest)
  IN  (c # NotFound /\ fileViewMode = "browser") =>
        HighlightedFiles = {f \in files : f = c.context.file_path}

(***************************************************************************)
(* C15.  The pages the document viewer shows highlighted while an approval *)
(* context is pending depend on that context alone: the viewer has never   *)
(* shown two different page lists for the same context.                    *)
(***************************************************************************)
C15_HighlightIsPure ==
  \A p, q \in seen : p[1] = q[1] => p[2] = q[2]

(***************************************************************************)
(* C16.  While no pending action matches the File View's filter the        *)
(* browser draws no file highlighted; while none matches the Document      *)
(* View's filter the list draws no document highlighted and the pages the  *)
(* viewer shows highlighted are the significant pages of the document      *)
(* detail it displays.                                                     *)
(***************************************************************************)
C16_StaticHighlighting ==
  /\ FileContext(approvalRequest) = NotFound => HighlightedFiles = {}
  /\ DocumentContext(approvalRequest) = NotFound => highlightedDocIds = {}
  /\ (DocumentContext(approvalRequest) = NotFound
        /\ ViewerRendered(selectedDocument, documentDetail)) =>
       highlightedPages = SignificantPages(documentDetail)

\* an approval context for pages was shown in the viewer and has been cleared
\* by approval_processed
C16_Witness ==
  /\ lastDispatch.type = "approval_processed"
  /\ approvalRequest = Null
  /\ ViewerRendered(selectedDocument, documentDetail)
  /\ \E p \in seen : p[2] = <<3>>
  /\ highlightedPages = <<1>>

(***************************************************************************)
(* C17.  The layout and the panel widths follow the current selection:     *)
(* 20/60/20 when neither a document nor a file is selected, 40/40/20 when  *)
(* only a document is, 20/40/40 when only a file is.                       *)
(***************************************************************************)
C17_LayoutFollowsSelection ==
  /\ (selectedDocument = Null /\ selectedFile = Null) =>
       getPanelSizes = [left |-> 20, center |-> 60, right |-> 20]
  /\ (selectedDocument # Null /\ selectedFile = Null) =>
       getPanelSizes = [left |-> 40, center |-> 40, right |-> 20]
  /\ (selectedDocument = Null /\ selectedFile # Null) =>
       getPanelSizes = [left |-> 20, center |-> 40, right |-> 40]

(***************************************************************************)
(* C18.  An inbound frame that does not parse as a Message (text that is   *)
(* not JSON, the JSON value null, an object with no type) invokes no       *)
(* handler, lets no error out of onmessage, leaves the timeline, the       *)
(* pending request, the connection status and the retry counter as they    *)
(* were, and leaves the socket open with the registered handlers in place, *)
(* so the frames after it are dispatched as before.                        *)
(***************************************************************************)
C18_MalformedDropped ==
  [][\A s \in DOMAIN sockets, data \in BadFrames :
       onmessage(s, data) =>
         /\ lastDispatch'.invoked = <<>>
         /\ ~lastDispatch'.escaped
         /\ UNCHANGED <<agentMessages, approvalRequest, connectionStatus, reconnectAttempts>>
         /\ UNCHANGED <<sockets, ws, messageHandlers, timers, isConnecting>>
         /\ UNCHANGED <<decisions, editMode, highlightedPages>>]_vars

\* a frame that is not JSON has just been dropped while a request is pending
\* and the timeline has entries; the socket is still open
C18_Witness ==
  /\ lastDispatch.via = "onmessage"
  /\ approvalRequest # Null
  /\ Len(agentMessages) >= 2
  /\ connectionStatus = "connected"
  /\ ws # 0 /\ sockets[ws] = "OPEN"
  /\ Len(sockets) >= 2

(***************************************************************************)
(* C19.  The Start Analysis control is enabled only while the channel is   *)
(* open: in every state where the transport of the connection manager is   *)
(* not open the control is disabled.                                       *)
(***************************************************************************)
C19_StartOnlyWhenOpen == StartEnabled => ChannelOpen

(***************************************************************************)
(* C20.  Whenever an approval_required frame is received, also while       *)
(* another request is pending, the decision slots are reset: after the     *)
(* frame has been handled no slot holds a decision, so none recorded for   *)
(* an earlier request can appear in a frame sent for the new one.          *)
(***************************************************************************)
C20_DecisionsReset ==
  [][(\E s \in DOMAIN sockets, data \in ApprovalFrames : onmessage(s, data)) =>
       /\ approvalRequest'.type = "approval_required"
       /\ \A i \in DOMAIN decisions' : decisions'[i] = Hole]_vars

(***************************************************************************)
(* C21.  When handleActionDecision has filled the last slot and sent the   *)
(* decision list, the pending request and the decision slots are both      *)
(* cleared locally, before any approval_processed frame arrives.           *)
(***************************************************************************)
C21_ClearedOnSend ==
  (lastCall.kind = "send" /\ lastCall.via = "handleActionDecision") =>
    /\ approvalRequest = Null
    /\ decisions = <<>>

(***************************************************************************)
(* C22.  Every decision recorded through an action's own controls is       *)
(* permitted by the allowed_decisions of that action: a plain approve only *)
(* where approve is allowed, a reject only where reject is allowed, a      *)
(* decision with edited_arguments only where edit is allowed.              *)
(***************************************************************************)
C22_DecisionsPermitted ==
  \A i \in DOMAIN recorded :
    recorded[i] # Hole =>
      LET allowed == Range(approvalRequest.actions[i].review_config.allowed_decisions)
      IN  IF Has(recorded[i], "edited_arguments")
          THEN "edit" \in allowed
          ELSE recorded[i].decision \in allowed

\* an edit saved for the first action and an approve given to the second of
\* a request that allows edit only on the first and approve only on the
\* second
C22_Witness ==
  /\ approvalRequest # Null
  /\ approvalRequest.actions = <<ActionAt(2), ActionAt(1)>>
  /\ Len(recorded) = 2
  /\ recorded[1] # Hole /\ Has(recorded[1], "edited_arguments")
  /\ recorded[2] = Approve

C24_DispatchSafeUnderUnsubscribe ==
  lastDispatch.via = "handleMessage" =>
    \A h \in Range(lastDispatch.registered) :
      ~Unsubscribes(h) =>
         Cardinality({k \in DOMAIN lastDispatch.invoked : lastDispatch.invoked[k] = h})
           = Cardinality({k \in DOMAIN lastDispatch.registered : lastDispatch.registered[k] = h})

(***************************************************************************)
(* C25.  The timeline only grows by appending: every step of the session   *)
(* (a frame, a transport event, a user action) leaves the timeline as it   *)
(* was or adds one entry at its end, so the timeline of an earlier state   *)
(* is a prefix of that of every later state and the entries stand in the   *)
(* arrival order of the frames that produced them.                         *)
(***************************************************************************)
C25_TimelineAppendOnly ==
  [][\/ agentMessages' = agentMessages
     \/ /\ Len(agentMessages') = Len(agentMessages) + 1
        /\ SubSeq(agentMessages', 1, Len(agentMessages)) = agentMessages
        /\ lastDispatch'.type \in DOMAIN AppHandlers
        /\ \E data \in ReceiveFrames \cup {[type |-> "error", error |-> "event"]} :
             /\ Field(data, "type") = lastDispatch'.type
             /\ <<agentMessages'[Len(agentMessages')]>> =
                  TimelineEntry(AppHandlers[lastDispatch'.type], data)]_vars

\* three frames have arrived in the order agent_message, approval_required,
\* approval_processed, and their entries stand in that order
C25_Witness ==
  /\ agentMessages = <<[type |-> "agent", content |-> "a"],
                       [type |-> "system", content |-> "Waiting for your approval..."],
                       [type |-> "system", content |-> "done"]>>
  /\ lastDispatch.type = "approval_processed"
  /\ analysisStarted

(***************************************************************************)
(* C26.  An inbound {type: 'error'} frame appends exactly one timeline     *)
(* entry of kind error, whose content is the frame's message, or 'An       *)
(* error occurred' when the frame has no message or an empty one, and is   *)
(* not fatal: the pending request, the connection status, the transport,   *)
(* the retry counter and the registered handlers are as before, so later   *)
(* frames are dispatched.                                                  *)
(***************************************************************************)
C26_ErrorFrameNonFatal ==
  [][\A s \in DOMAIN sockets, data \in ErrorFrames :
       onmessage(s, data) =>
         /\ agentMessages' =
              Append(agentMessages,
                     [type |-> "error",
                      content |-> IF "message" \in DOMAIN data /\ data.message # ""
                                  THEN data.message ELSE "An error occurred"])
         /\ UNCHANGED <<approvalRequest, connectionStatus, wsVars, websocket>>
         /\ sockets'[s] = "OPEN"]_vars

\* an error frame without a message has arrived after one with a message
\* while a request is pending: two entries, the request still pending
C26_Witness ==
  /\ lastDispatch.type = "error" /\ lastDispatch.via = "handleMessage"
  /\ approvalRequest # Null
  /\ Len(agentMessages) = 3
  /\ agentMessages[2] = [type |-> "error", content |-> "m"]
  /\ agentMessages[3] = [type |-> "error", content |-> "An error occurred"]

(***************************************************************************)
(* C27.  A transport error or a connection drop puts no entry of kind      *)
(* error on the timeline while the retry budget is not exhausted; the user *)
(* is told of a transport failure once the retries are exhausted.  (In     *)
(* SpecSession no frame arrives: every entry comes from a transport event.)*)
(***************************************************************************)
C27_TransportErrorsDeferred ==
  /\ failedEmits = 0 => \A k \in DOMAIN agentMessages : agentMessages[k].type # "error"
  /\ failedEmits >= 1 => lastDispatch.invoked # <<>>

(***************************************************************************)
(* C28.  The pending approval request changes only when an                 *)
(* approval_required or an approval_processed frame is handled: no         *)
(* transport event (open, close, error, reconnect timer, connection_failed)*)
(* and no analysis_started, agent_message, analysis_complete or error      *)
(* frame sets or clears it, so a request survives disconnections and       *)
(* reconnections.                                                          *)
(***************************************************************************)
C28_RequestSurvivesTransport ==
  [][approvalRequest' # approvalRequest =>
       /\ lastDispatch'.via = "handleMessage"
       /\ lastDispatch'.type \in {"approval_required", "approval_processed"}
       /\ \E s \in DOMAIN sockets, data \in ReceiveFrames :
            /\ Field(data, "type") = lastDispatch'.type
            /\ onmessage(s, data)]_vars

\* a request received on the first transport is still pending after that
\* transport dropped, a reconnect failed and the third transport has opened
C28_Witness ==
  /\ approvalRequest # Null
  /\ lastDispatch.type = "connected"
  /\ sockets = <<"CLOSED", "CLOSED", "OPEN">>

(***************************************************************************)
(* C29.  In the Document View and in the File View, once the effect on the *)
(* selection has run, the view is in viewer mode iff its selected entity   *)
(* is not null (so selecting none returns it to the list or the browser);  *)
(* a select or deselect in one view leaves the selected entity and the     *)
(* mode of the other view as they were.                                    *)
(***************************************************************************)
C29_ViewModeFollowsSelection ==
  [][/\ (documentViewMode' = "viewer") = (selectedDocument' # Null)
     /\ (documentViewMode' = "list") = (selectedDocument' = Null)
     /\ (fileViewMode' = "viewer") = (selectedFile' # Null)
     /\ (fileViewMode' = "browser") = (selectedFile' = Null)
     /\ (selectedDocument' # selectedDocument \/ documentViewMode' # documentViewMode) =>
          UNCHANGED <<selectedFile, fileViewMode>>
     /\ (selectedFile' # selectedFile \/ fileViewMode' # fileViewMode) =>
          UNCHANGED <<selectedDocument, documentViewMode>>]_vars

\* a document is open in the viewer, a file was opened and closed again
\* beside it: the Document View is still in its viewer, the File View back
\* in its browser
C29_Witness ==
  /\ selectedDocument # Null /\ documentViewMode = "viewer"
  /\ selectedFile = Null /\ fileViewMode = "browser"
  /\ layoutMode = "file-edit"

(***************************************************************************)
(* C30.  The Document View is given the first action, in action order, of  *)
(* the pending request whose tool is get_documents or get_page_text, the   *)
(* File View the first whose tool is write_file or edit_file; each is      *)
(* given no action when none matches or nothing is pending.                *)
(***************************************************************************)
C30_FirstMatchingAction ==
  LET actions == IF approvalRequest = Null THEN <<>> ELSE approvalRequest.actions
      First(toolNames) ==
        LET at == {k \in DOMAIN actions : actions[k].tool_name \in toolNames}
        IN  IF at = {} THEN NotFound
            ELSE actions[CHOOSE k \in at : \A j \in at : k <= j]
  IN  /\ DocumentContext(approvalRequest) = First({"get_documents", "get_page_text"})
      /\ FileContext(approvalRequest) = First({"write_file", "edit_file"})

\* a request with two document actions and no file action
C30_Witness ==
  /\ approvalRequest # Null
  /\ Len(approvalRequest.actions) = 2
  /\ approvalRequest.actions[1].tool_name = "get_page_text"
  /\ approvalRequest.actions[2].tool_name = "get_documents"
  /\ DocumentContext(approvalRequest).position = 1
  /\ FileContext(approvalRequest) = NotFound

(***************************************************************************)
(* C31.  For a pending get_documents action whose context lists documents  *)
(* the highlighted pages of the Document View are the significant_pages of *)
(* the first document listed; for a pending get_page_text action they are  *)
(* the page numbers named in its context.                                  *)
(***************************************************************************)
C31_PagesOfPendingAction ==
  LET c == DocumentContext(approvalRequest)
  IN  (c # NotFound /\ Has(c, "context")) =>
        /\ (c.tool_name = "get_documents" /\ Has(c.context, "documents")
              /\ Len(c.context.documents) > 0) =>
             highlightedPages = SignificantPages(c.context.documents[1])
        /\ (c.tool_name = "get_page_text" /\ Has(c.context, "pages")) =>
             highlightedPages = [k \in DOMAIN c.context.pages |-> c.context.pages[k].page_num]

(***************************************************************************)
(* C32.  The file tree built from the file list has a directory node only  *)
(* where some file's path traverses it, and every file of the list appears *)
(* exactly once in it, as a file entry of the directory node reached by    *)
(* the names of its path before the last.                                  *)
(***************************************************************************)
C32_TreeMatchesFiles ==
  /\ \A dir \in fileTree.dirs :
       \E k \in DOMAIN fileList :
         /\ Len(dir) < Len(split(fileList[k].path))
         /\ SubSeq(split(fileList[k].path), 1, Len(dir)) = dir
  /\ \A k \in DOMAIN fileList :
       LET parts == split(fileList[k].path)
           node == SubSeq(parts, 1, Len(parts) - 1)
       IN  /\ node = <<>> \/ node \in fileTree.dirs
           /\ Cardinality({j \in DOMAIN fileTree.files :
                             fileTree.files[j].path = fileList[k].path}) =
                Cardinality({j \in DOMAIN fileList : fileList[j].path = fileList[k].path})
           /\ \A j \in DOMAIN fileTree.files :
                fileTree.files[j].path = fileList[k].path =>
                  /\ fileTree.files[j].node = node
                  /\ fileTree.files[j].name = parts[Len(parts)]

(***************************************************************************)
(* C33.  When App is torn down after initializeSession has created its     *)
(* connection manager, the teardown calls close() on that manager.         *)
(***************************************************************************)
C33_TeardownCloses ==
  [][(mounted /\ ~mounted' /\ websocket # "null") => closeCalled']_vars

(***************************************************************************)
(* C34.  At most one transport of the connection manager is connecting or  *)
(* open at any time, whatever the order of connect(), close(), transport   *)
(* events and reconnect timers.                                            *)
(***************************************************************************)
C34_OneLiveTransport ==
  Cardinality({s \in DOMAIN sockets : sockets[s] \in {"CONNECTING", "OPEN"}}) <= 1

(***************************************************************************)
(* C35.  A decision batch handed over for sending (by the last slot, by    *)
(* Approve All or by Reject All) while the channel is not open is not      *)
(* transmitted, neither by that step nor by a later one: a step transmits  *)
(* an approval_decision frame only if it is itself a hand-over on an open  *)
(* channel, so a reconnection transmits nothing.  The panel's decision     *)
(* slots are cleared by the hand-over all the same.                        *)
(***************************************************************************)
C35_UnsentBatchDropped ==
  [][/\ (/\ lastCall'.kind = "send"
         /\ lastCall'.message.type = "approval_decision"
         /\ ~(ws # 0 /\ sockets[ws] = "OPEN")) =>
          (~lastCall'.transmitted /\ decisions' = <<>>)
     /\ (/\ lastCall'.kind = "send"
         /\ lastCall'.message.type = "approval_decision"
         /\ lastCall'.transmitted) =>
          /\ lastCall'.via \in {"handleActionDecision", "handleApproveAll", "handleRejectAll"}
          /\ ws # 0 /\ sockets[ws] = "OPEN"
          /\ UNCHANGED <<ws, sockets, timers>>]_vars

\* Approve All was pressed with one slot filled while the second transport of
\* the session was still connecting: nothing went out and the slots are empty
C35_Witness ==
  /\ lastCall.kind = "send" /\ lastCall.via = "handleApproveAll"
  /\ lastCall.message.type = "approval_decision"
  /\ ~lastCall.transmitted /\ lastCall.logged
  /\ decisions = <<>>
  /\ recorded # <<>> /\ recorded[1] # Hole
  /\ ws = 2 /\ sockets[ws] = "CONNECTING"

(***************************************************************************)
(* C36.  Whenever the viewer of the Document View renders a document       *)
(* detail, it is the detail of the document currently selected, whatever   *)
(* the order of selections and of answers to the detail requests.          *)
(***************************************************************************)
C36_DetailOfSelected ==
  (documentViewMode = "viewer" /\ ViewerRendered(selectedDocument, documentDetail)) =>
    documentDetail.doc_id = selectedDocument.doc_id

(***************************************************************************)
(* C37.  When every connection attempt ends in a closure without opening   *)
(* and reconnect timers fire fairly, the manager, once it has started to   *)
(* connect, eventually emits connection_failed and from then on has no     *)
(* reconnect timer pending: retrying terminates.                           *)
(***************************************************************************)
C37_RetryTerminates ==
  (ws # 0) ~> [](failedEmits >= 1 /\ timers = <<>>)

\* the sixth closure has found the budget spent: connection_failed is out,
\* no timer is pending and no transport is left to close
C37_Witness ==
  /\ failedEmits = 1 /\ timers = <<>>
  /\ Len(sockets) = 6 /\ \A s \in DOMAIN sockets : sockets[s] = "CLOSED"
  /\ lastDispatch.type = "connection_failed"

(***************************************************************************)
(* C38.  The function returned by on(type, handler) removes the            *)
(* registration that produced it and nothing else: at any time the array   *)
(* of each type holds, in the order of their registration, exactly the     *)
(* handlers of the calls of on whose function has not been called.  So the *)
(* others keep their order, other types are untouched and a second call of *)
(* the same function changes nothing, also when one handler function was   *)
(* registered more than once.                                              *)
(***************************************************************************)
C38_OnlyOwnRegistration ==
  \A type \in DOMAIN messageHandlers :
    messageHandlers[type] =
      LET kept == SelectSeq(unsubscribers, LAMBDA u : u.type = type /\ ~u.called)
      IN  [k \in DOMAIN kept |-> kept[k].handler]

====
